---- MODULE Spec2Model ----
(***************************************************************************)
(* Model of libreco/evaluate/evaluate.py: the rating-error metrics         *)
(* (rmse_knn, rmse_svd, rmse_tf, binary_cross_entropy) and the ranking     *)
(* metrics (AP_at_k, MAP_at_k, HitRatio_at_k, NDCG_at_k).                   *)
(*                                                                         *)
(* One behaviour is one call of one metric function.  Init fixes the       *)
(* function and its scalar arguments; what the call reads from the         *)
(* dataset and gets back from the model is drawn when the code reads it    *)
(* (an attribute read, a predict / predict_user call), and each loop of    *)
(* the code advances one iteration per step.                               *)
(*                                                                         *)
(* Numbers: Python floats are modelled as exact rationals <<num, den>>.    *)
(* Two results are kept symbolic because they are irrational: an RMSE      *)
(* score is carried as the mean squared residual it is the square root     *)
(* of, and a cross-entropy mean as the list of arguments of its -ln        *)
(* terms.  1/log2(n+2) is carried in millionths.                           *)
(***************************************************************************)
EXTENDS Integers, Sequences, FiniteSets

\* ---------------------------------------------------------------- bounds
MaxLen == 2        \* longest split / sample sequence
MaxUsers == 2      \* most keys in dataset.train_user
NItems == 3        \* catalog size: length of a Ranked Score Vector
MaxScore == 1      \* scores are drawn from 0..MaxScore (ties included)

MaxK == NItems + 1 \* cutoffs 1..MaxK: one past the catalog size is included
Items == 0 .. NItems - 1
Scores == 0 .. MaxScore
SampleUsers == {0, 1}
SampleItems == {0, 1}
Ratings == {0, 1}
Predictions == {0, 1}
Labels == {0, 1, 2}         \* 2 stands for a label outside {0.0, 1.0}
Probs == {25, 75}           \* predicted probabilities, in percent, inside (0,1)
Modes == {"train", "test", "valid"}

VARIABLES
  fn,                \* the function called
  pc,                \* position inside it
  result,            \* how the call ended: value, NaN or exception
  mode,              \* rmse_*: the mode argument
  split,             \* rmse_*: which dataset attributes were bound, or "unbound"
  user_indices,      \* rmse_*: user_indices; binary_cross_entropy: user
  item_indices,      \* rmse_*: item_indices; binary_cross_entropy: item
  ratings,           \* rmse_*: ratings; binary_cross_entropy: label
  pos,               \* number of samples the zip loop has consumed
  pred,              \* rmse_*: pred; binary_cross_entropy: probs
  ce,                \* binary_cross_entropy: ce, as the arguments of -ln
  calls,             \* history: the (u, i) of every model.predict call, in order
  k,                 \* ranking metrics: the cutoff
  train_user_keys,   \* keys of dataset.train_user in iteration order
  ui,                \* number of users the "for u in dataset.train_user" loop has consumed
  top_k,             \* AP_at_k: top_k
  rel,               \* AP_at_k: dataset.train_user[u]
  i,                 \* AP_at_k: rank reached by "for i in range(1, k + 1)"
  precision_i,       \* AP_at_k
  precision_k,       \* AP_at_k
  count_relevant_k,  \* AP_at_k
  average_precision_at_k,  \* AP_at_k (MAP_at_k's variable of this name is acc)
  acc,               \* MAP_at_k: average_precision_at_k; NDCG_at_k: NDCG
  HitRatio,          \* HitRatio_at_k: the list HitRatio
  apHist,            \* history: the value each AP_at_k call returned, in order
  allHit             \* history: every top_k item seen so far was in its user's set

errVars == <<mode, split, user_indices, item_indices, ratings, pos, pred, ce, calls>>
walkVars == <<top_k, rel, i, precision_i, precision_k, count_relevant_k,
              average_precision_at_k>>
rankVars == <<k, train_user_keys, ui, acc, HitRatio, apHist, allHit>>
vars == <<fn, pc, result, errVars, walkVars, rankVars>>

\* ------------------------------------------------------------- rationals
Abs(x) == IF x < 0 THEN -x ELSE x

RECURSIVE GCD(_, _)
GCD(a, b) == IF b = 0 THEN a ELSE GCD(b, a % b)

\* n/d in lowest terms, d > 0
Frac(n, d) ==
  LET g == GCD(Abs(n), Abs(d))
      s == IF d < 0 THEN -1 ELSE 1
  IN  <<(s * n) \div g, (s * d) \div g>>

Zero == Frac(0, 1)
One == Frac(1, 1)
\* over the least common denominator, which keeps the products small
RAdd(a, b) ==
  LET l == (a[2] \div GCD(a[2], b[2])) * b[2]
  IN  Frac(a[1] * (l \div a[2]) + b[1] * (l \div b[2]), l)
RDiv(a, m) == Frac(a[1], a[2] * m)
RLe(a, b) == a[1] * b[2] <= b[1] * a[2]

RECURSIVE RSum(_)
RSum(s) == IF s = <<>> THEN Zero ELSE RAdd(s[1], RSum(Tail(s)))

Min(a, b) == IF a < b THEN a ELSE b

\* --------------------------------------------------------------- outcomes
NoResult == [kind |-> "none", val |-> <<>>, exc |-> ""]
Value(v) == [kind |-> "value", val |-> v, exc |-> ""]
NaN(v) == [kind |-> "nan", val |-> v, exc |-> ""]
Raise(e) == [kind |-> "error", val |-> <<>>, exc |-> e]

\* ------------------------------------------- sequences of bounded length
RECURSIVE SeqsOfLen(_, _)
SeqsOfLen(S, n) ==
  IF n = 0 THEN {<<>>}
  ELSE {Append(s, x) : s \in SeqsOfLen(S, n - 1), x \in S}

\* ====================================================== rating-error metrics
RmseLoopFns == {"rmse_knn", "rmse_svd"}
RmseFns == RmseLoopFns \cup {"rmse_tf"}

\* a split of the dataset: parallel sequences of equal length
Samples == SampleUsers \X SampleItems \X Ratings
SplitsOfLen(n) == SeqsOfLen(Samples, n)
Column(s, c) == [j \in 1 .. Len(s) |-> s[j][c]]

\* the if / elif on mode: which attributes get bound; no else branch
SelectedSplit(m) ==
  IF m = "train" THEN "train"
  ELSE IF m = "test" THEN "test"
  ELSE "unbound"

\* zip(user_indices, item_indices): its length, and its j-th pair
ZipLen(us, is) == Min(Len(us), Len(is))
ZipAtSwapped(us, is, j) == <<is[j], us[j]>>
ZipAt(us, is, j) == <<us[j], is[j]>>

\* np.mean(np.power(pred - ratings, 2)); the score is its square root
MeanSquare(p, r) ==
  RDiv(RSum([j \in 1 .. Len(p) |-> Frac((p[j] - r[j]) * (p[j] - r[j]), 1)]), Len(p))

\* rmse_*: the mode dispatch reads the three sequences of one split, or none
SelectSplit ==
  /\ pc = "select"
  /\ fn \in RmseFns
  /\ split' = SelectedSplit(mode)
  /\ IF split' = "unbound"
       THEN UNCHANGED <<user_indices, item_indices, ratings>>
       ELSE \E n \in 0 .. MaxLen : \E s \in SplitsOfLen(n) :
              /\ user_indices' = Column(s, 1)
              /\ item_indices' = Column(s, 2)
              /\ ratings' = Column(s, 3)
  /\ pc' = IF fn = "rmse_tf" THEN "run" ELSE "loop"
  /\ UNCHANGED <<fn, result, mode, pos, pred, ce, calls, walkVars, rankVars>>

\* rmse_knn / rmse_svd: zip(user_indices, item_indices) names unbound locals
LoopUnbound ==
  /\ pc = "loop"
  /\ split = "unbound"
  /\ result' = Raise("UnboundLocalError")
  /\ pc' = "done"
  /\ UNCHANGED <<fn, errVars, walkVars, rankVars>>

\* rmse_knn / rmse_svd: one iteration of the loop: predict, append
PredictStep ==
  /\ pc = "loop"
  /\ split # "unbound"
  /\ pos < ZipLen(user_indices, item_indices)
  /\ \E p \in Predictions :
       LET ui_ == ZipAt(user_indices, item_indices, pos + 1)
       IN  /\ calls' = Append(calls, [u |-> ui_[1], i |-> ui_[2], p |-> p])
           /\ pred' = Append(pred, p)
  /\ pos' = pos + 1
  /\ UNCHANGED <<fn, pc, result, mode, split, user_indices, item_indices, ratings, ce,
                 walkVars, rankVars>>

\* rmse_knn / rmse_svd: the aggregate; the mean of an empty array is NaN
Score ==
  /\ pc = "loop"
  /\ split # "unbound"
  /\ pos = ZipLen(user_indices, item_indices)
  /\ result' = IF Len(pred) = 0 THEN NaN(<<>>) ELSE Value(MeanSquare(pred, ratings))
  /\ pc' = "done"
  /\ UNCHANGED <<fn, errVars, walkVars, rankVars>>

\* rmse_tf: the feed_dict names the three locals; the engine's scalar is opaque
RunSession ==
  /\ pc = "run"
  /\ \/ /\ split = "unbound"
        /\ result' = Raise("UnboundLocalError")
     \/ /\ split # "unbound"
        /\ \E v \in Predictions : result' = Value(Frac(v, 1))
  /\ pc' = "done"
  /\ UNCHANGED <<fn, errVars, walkVars, rankVars>>

\* the cross-entropy term of one sample, as the argument of -ln, or none
CrossEntropyTerm(l, prob) ==
  IF l = 1 THEN <<prob>>
  ELSE IF l = 0 THEN <<100 - prob>>
  ELSE <<>>

\* binary_cross_entropy: one iteration of the loop
CrossEntropyStep ==
  /\ pc = "bce_loop"
  /\ pos < Min(ZipLen(user_indices, item_indices), Len(ratings))
  /\ \E prob \in Probs :
       /\ calls' = Append(calls, [u |-> user_indices[pos + 1], i |-> item_indices[pos + 1],
                                  p |-> prob])
       /\ pred' = Append(pred, prob)
       /\ ce' = ce \o CrossEntropyTerm(ratings[pos + 1], prob)
  /\ pos' = pos + 1
  /\ UNCHANGED <<fn, pc, result, mode, split, user_indices, item_indices, ratings,
                 walkVars, rankVars>>

\* binary_cross_entropy: return np.mean(ce), probs
CrossEntropyReturn ==
  /\ pc = "bce_loop"
  /\ pos = Min(ZipLen(user_indices, item_indices), Len(ratings))
  /\ result' = IF Len(ce) = 0 THEN NaN([probs |-> pred])
               ELSE Value([ce |-> ce, probs |-> pred])
  /\ pc' = "done"
  /\ UNCHANGED <<fn, errVars, walkVars, rankVars>>

\* =========================================================== ranking metrics
RankLoopFns == {"MAP_at_k", "HitRatio_at_k", "NDCG_at_k"}
RankFns == RankLoopFns \cup {"AP_at_k"}

\* dataset.n_users: the total user count, the number of keys of train_user
n_users == Len(train_user_keys)

\* model.predict_user(u): one score per catalog item; item j's score is at j + 1
RankLists == [1 .. NItems -> Scores]

\* np.argsort(ranklist): the item ids in ascending score order; the order
\* among equal scores is whatever the sort makes of it
ArgSorts(ranklist) ==
  {p \in [1 .. Len(ranklist) -> 0 .. Len(ranklist) - 1] :
     /\ \A a, b \in 1 .. Len(ranklist) : a # b => p[a] # p[b]
     /\ \A a, b \in 1 .. Len(ranklist) :
          a < b => ranklist[p[a] + 1] <= ranklist[p[b] + 1]}

\* s[::-1]
Reverse(s) == [j \in 1 .. Len(s) |-> s[Len(s) + 1 - j]]

\* s[:n]
Prefix(s, n) == SubSeq(s, 1, Min(n, Len(s)))

\* np.argsort(ranklist)[::-1][:k], for one outcome of the sort
TopK(sorted, kk) == Prefix(Reverse(sorted), kk)

\* np.argsort(model.predict_user(u)) for every score vector the model may
\* return and every outcome of the sort
Sortings == UNION {ArgSorts(ranklist) : ranklist \in RankLists}

\* the number of positions of s whose item is in the relevant set r
RECURSIVE CountRelevant(_, _)
CountRelevant(s, r) ==
  IF s = <<>> THEN 0
  ELSE (IF s[1] \in r THEN 1 ELSE 0) + CountRelevant(Tail(s), r)

\* AP_at_k: the recount "for pred in top_k[:i]" at rank i
PrecisionCountShort(t, r, rank) == CountRelevant(Prefix(t, rank - 1), r)
PrecisionCount(t, r, rank) == CountRelevant(Prefix(t, rank), r)

\* AP_at_k: precision_i / i
PrecisionAtUndivided(cnt, rank) == Frac(cnt, 1)
PrecisionAt(cnt, rank) == Frac(cnt, rank)

\* AP_at_k: precision_k / count_relevant_k, 0.0 on ZeroDivisionError
AveragePrecision(pk, cnt) == IF cnt = 0 THEN Zero ELSE RDiv(pk, cnt)

\* MAP_at_k: average_precision_at_k / dataset.n_users
MeanAveragePrecisionUndivided(total, n) == total
MeanAveragePrecision(total, n) == RDiv(total, n)

\* HitRatio_at_k: user_HitRatio / k
UserHitRatioAnyHit(t, r, kk) == Frac(IF CountRelevant(t, r) > 0 THEN 1 ELSE 0, kk)
UserHitRatio(t, r, kk) == Frac(CountRelevant(t, r), kk)

\* np.mean of a non-empty list
Mean(s) == RDiv(RSum(s), Len(s))

\* np.reciprocal(np.log2(n + 2)), in millionths
RecipLog2(n) ==
  CASE n = 0 -> 1000000
    [] n = 1 -> 630930
    [] n = 2 -> 500000
    [] n = 3 -> 430677
    [] n = 4 -> 386853
    [] n = 5 -> 356207
    [] n = 6 -> 333333
    [] n = 7 -> 315465

\* NDCG_at_k: DCG over enumerate(top_k), position n of the code is j - 1 here
RECURSIVE DCGFrom(_, _, _)
DCGFrom(t, r, j) ==
  IF j > Len(t) THEN 0
  ELSE (IF t[j] \in r THEN RecipLog2(j - 1) ELSE 0) + DCGFrom(t, r, j + 1)

DCG(t, r) == DCGFrom(t, r, 1)

\* NDCG_at_k: IDCG over range(k)
RECURSIVE IDCGFrom(_, _)
IDCGFrom(n, kk) == IF n >= kk THEN 0 ELSE RecipLog2(n) + IDCGFrom(n + 1, kk)

IDCG(kk) == IDCGFrom(0, kk)

\* NDCG_at_k: DCG / IDCG of one user
UserNDCGUnnormalised(t, r, kk) == Frac(DCG(t, r), 1000000)
UserNDCG(t, r, kk) == Frac(DCG(t, r), IDCG(kk))

\* every item of the Top-k List t is in the Relevant Set r
AllRelevant(t, r) == \A j \in 1 .. Len(t) : t[j] \in r

\* AP_at_k, lines 67-70: the ranked scores, the top-k list, the counters
APBegin ==
  /\ pc = "ap_call"
  /\ \E sorted \in Sortings : top_k' = TopK(sorted, k)
  /\ rel' \in SUBSET Items
  /\ i' = 0 /\ precision_i' = 0 /\ precision_k' = Zero /\ count_relevant_k' = 0
  /\ pc' = "ap_walk"
  /\ UNCHANGED <<fn, result, errVars, average_precision_at_k, rankVars>>

\* AP_at_k, lines 71-80: one rank of the walk
APRank ==
  /\ pc = "ap_walk"
  /\ i < k
  /\ i' = i + 1
  /\ IF i' > Len(top_k)
       THEN /\ result' = Raise("IndexError")
            /\ pc' = "done"
            /\ precision_i' = 0
            /\ UNCHANGED <<precision_k, count_relevant_k>>
       ELSE /\ IF top_k[i'] \in rel
                 THEN /\ count_relevant_k' = count_relevant_k + 1
                      /\ precision_i' = PrecisionCount(top_k, rel, i')
                      /\ precision_k' = RAdd(precision_k, PrecisionAt(precision_i', i'))
                 ELSE /\ precision_i' = 0
                      /\ UNCHANGED <<precision_k, count_relevant_k>>
            /\ UNCHANGED <<pc, result>>
  /\ UNCHANGED <<fn, errVars, top_k, rel, average_precision_at_k, rankVars>>

\* AP_at_k, lines 81-84: the division, 0.0 when it raises ZeroDivisionError
APAverage ==
  /\ pc = "ap_walk"
  /\ i = k
  /\ average_precision_at_k' = AveragePrecision(precision_k, count_relevant_k)
  /\ pc' = "ap_ret"
  /\ UNCHANGED <<fn, result, errVars, top_k, rel, i, precision_i, precision_k,
                 count_relevant_k, rankVars>>

\* AP_at_k, line 85: the return; in MAP_at_k, line 91 adds the value up and
\* the frame of AP_at_k is gone
APReturn ==
  /\ pc = "ap_ret"
  /\ apHist' = Append(apHist, average_precision_at_k)
  /\ IF fn = "AP_at_k"
       THEN /\ result' = Value(average_precision_at_k)
            /\ pc' = "done"
            /\ UNCHANGED <<acc, ui, walkVars>>
       ELSE /\ acc' = RAdd(acc, average_precision_at_k)
            /\ ui' = ui + 1
            /\ pc' = "map_loop"
            /\ top_k' = <<>> /\ rel' = {} /\ i' = 0
            /\ precision_i' = 0 /\ precision_k' = Zero /\ count_relevant_k' = 0
            /\ average_precision_at_k' = Zero
            /\ UNCHANGED result
  /\ UNCHANGED <<fn, errVars, k, train_user_keys, HitRatio, allHit>>

\* MAP_at_k, lines 90-91: the next user's AP_at_k call
MAPUser ==
  /\ pc = "map_loop"
  /\ ui < Len(train_user_keys)
  /\ pc' = "ap_call"
  /\ UNCHANGED <<fn, result, errVars, walkVars, rankVars>>

\* MAP_at_k, lines 92-93: 0 / 0 of two ints raises
MAPReturn ==
  /\ pc = "map_loop"
  /\ ui = Len(train_user_keys)
  /\ result' = IF n_users = 0 THEN Raise("ZeroDivisionError")
               ELSE Value(MeanAveragePrecision(acc, n_users))
  /\ pc' = "done"
  /\ UNCHANGED <<fn, errVars, walkVars, rankVars>>

\* HitRatio_at_k, lines 98-105: one user
HitRatioUser ==
  /\ pc = "hr_loop"
  /\ ui < Len(train_user_keys)
  /\ \E sorted \in Sortings, relevant \in SUBSET Items :
       LET top == TopK(sorted, k)
       IN  /\ HitRatio' = Append(HitRatio, UserHitRatio(top, relevant, k))
           /\ allHit' = (allHit /\ AllRelevant(top, relevant))
  /\ ui' = ui + 1
  /\ UNCHANGED <<fn, pc, result, errVars, walkVars, k, train_user_keys, acc, apHist>>

\* HitRatio_at_k, line 106: the mean of an empty list is NaN
HitRatioReturn ==
  /\ pc = "hr_loop"
  /\ ui = Len(train_user_keys)
  /\ result' = IF Len(HitRatio) = 0 THEN NaN(<<>>) ELSE Value(Mean(HitRatio))
  /\ pc' = "done"
  /\ UNCHANGED <<fn, errVars, walkVars, rankVars>>

\* NDCG_at_k, lines 111-121: one user
NDCGUser ==
  /\ pc = "ndcg_loop"
  /\ ui < Len(train_user_keys)
  /\ \E sorted \in Sortings, relevant \in SUBSET Items :
       acc' = RAdd(acc, UserNDCG(TopK(sorted, k), relevant, k))
  /\ ui' = ui + 1
  /\ UNCHANGED <<fn, pc, result, errVars, walkVars, k, train_user_keys, HitRatio, apHist,
                 allHit>>

\* NDCG_at_k, line 122: 0 / 0 of two ints raises
NDCGReturn ==
  /\ pc = "ndcg_loop"
  /\ ui = Len(train_user_keys)
  /\ result' = IF n_users = 0 THEN Raise("ZeroDivisionError")
               ELSE Value(RDiv(acc, n_users))
  /\ pc' = "done"
  /\ UNCHANGED <<fn, errVars, walkVars, rankVars>>

\* ------------------------------------------------------------------ Init
ErrIdle ==
  /\ mode = "train" /\ split = "unbound"
  /\ user_indices = <<>> /\ item_indices = <<>> /\ ratings = <<>>
  /\ pos = 0 /\ pred = <<>> /\ ce = <<>> /\ calls = <<>>

RankIdle ==
  /\ k = 1 /\ train_user_keys = <<>> /\ ui = 0
  /\ top_k = <<>> /\ rel = {} /\ i = 0
  /\ precision_i = 0 /\ precision_k = Zero /\ count_relevant_k = 0
  /\ average_precision_at_k = Zero
  /\ acc = Zero /\ HitRatio = <<>> /\ apHist = <<>> /\ allHit = TRUE

InitRmse ==
  /\ fn \in RmseFns
  /\ pc = "select"
  /\ mode \in Modes
  /\ split = "unbound"
  /\ user_indices = <<>> /\ item_indices = <<>> /\ ratings = <<>>
  /\ pos = 0 /\ pred = <<>> /\ ce = <<>> /\ calls = <<>>
  /\ RankIdle

LabelSamples == SampleUsers \X SampleItems \X Labels

InitCrossEntropy ==
  /\ fn = "binary_cross_entropy"
  /\ pc = "bce_loop"
  /\ mode = "train" /\ split = "unbound"
  /\ \E n \in 0 .. MaxLen : \E s \in SeqsOfLen(LabelSamples, n) :
       /\ user_indices = Column(s, 1)
       /\ item_indices = Column(s, 2)
       /\ ratings = Column(s, 3)
  /\ pos = 0 /\ pred = <<>> /\ ce = <<>> /\ calls = <<>>
  /\ RankIdle

\* the keys of a train_user with n users
UserKeys(n) == [j \in 1 .. n |-> j - 1]

EntryPc(f) ==
  CASE f = "AP_at_k" -> "ap_call"
    [] f = "MAP_at_k" -> "map_loop"
    [] f = "HitRatio_at_k" -> "hr_loop"
    [] f = "NDCG_at_k" -> "ndcg_loop"

InitRanking ==
  /\ fn \in RankFns
  /\ pc = EntryPc(fn)
  /\ k \in 1 .. MaxK
  /\ \E n \in (IF fn = "AP_at_k" THEN 1 ELSE 0) .. MaxUsers : train_user_keys = UserKeys(n)
  /\ ui = 0
  /\ top_k = <<>> /\ rel = {} /\ i = 0
  /\ precision_i = 0 /\ precision_k = Zero /\ count_relevant_k = 0
  /\ average_precision_at_k = Zero
  /\ acc = Zero /\ HitRatio = <<>> /\ apHist = <<>> /\ allHit = TRUE
  /\ ErrIdle

Init ==
  /\ result = NoResult
  /\ \/ InitRmse
     \/ InitCrossEntropy
     \/ InitRanking

Next ==
  \/ SelectSplit
  \/ LoopUnbound
  \/ PredictStep
  \/ Score
  \/ RunSession
  \/ CrossEntropyStep
  \/ CrossEntropyReturn
  \/ APBegin
  \/ APRank
  \/ APAverage
  \/ APReturn
  \/ MAPUser
  \/ MAPReturn
  \/ HitRatioUser
  \/ HitRatioReturn
  \/ NDCGUser
  \/ NDCGReturn

Spec == Init /\ [][Next]_vars

\* ================================================================ properties
Done == pc = "done"
InUnit(x) == RLe(Zero, x) /\ RLe(x, One)
NoneRelevant(t, r) == \A j \in 1 .. Len(t) : t[j] \notin r

\* C1: when MAP_at_k returns, one AP_at_k value was obtained for every user of
\* dataset.train_user and the returned value is their arithmetic mean; it never
\* returns NaN, and it raises only with no user or a cutoff past the catalog.
C1_MapIsMeanOfAp ==
  (fn = "MAP_at_k" /\ Done) =>
    /\ result.kind \in {"value", "error"}
    /\ result.kind = "error" => (Len(train_user_keys) = 0 \/ k > NItems)
    /\ result.kind = "value" =>
         /\ Len(apHist) = Len(train_user_keys)
         /\ Len(apHist) > 0
         /\ result.val = Mean(apHist)

C1_Witness ==
  /\ fn = "MAP_at_k" /\ Done /\ result.kind = "value"
  /\ Len(apHist) = 2
  /\ apHist[1] # apHist[2]
  /\ apHist[1] # Zero /\ apHist[2] # Zero

\* C2: a call of AP_at_k whose Top-k List holds no item of the Relevant Set
\* ends by returning 0.0, never by raising.
C2_ZeroWithoutError ==
  (fn = "AP_at_k" /\ Done /\ NoneRelevant(top_k, rel)) => result = Value(Zero)

\* C3: every value AP_at_k computes and returns lies in [0,1].
C3_ApInUnitInterval ==
  /\ pc = "ap_ret" => InUnit(average_precision_at_k)
  /\ \A j \in 1 .. Len(apHist) : InUnit(apHist[j])
  /\ (fn = "AP_at_k" /\ Done /\ result.kind = "value") => InUnit(result.val)

C3_Witness ==
  /\ pc = "ap_ret"
  /\ count_relevant_k = 2
  /\ average_precision_at_k # Zero
  /\ average_precision_at_k # One

\* C4 as stated: HitRatio_at_k returns exactly 1.0 whenever every item of every
\* user's Top-k List is in that user's Relevant Set, for every k >= 1.
C4_AllHitGivesOne ==
  (fn = "HitRatio_at_k" /\ Done /\ allHit) => result = Value(One)

\* C4 as amended: HitRatio_at_k returns exactly 1.0 whenever train_user has at
\* least one user, k is at most the catalog size, and every item of every
\* user's Top-k List is in that user's Relevant Set.
C4_AllHitGivesOneWithinCatalog ==
  (fn = "HitRatio_at_k" /\ Done /\ allHit /\ Len(train_user_keys) >= 1 /\ k <= NItems)
    => result = Value(One)

C4_Witness ==
  /\ fn = "HitRatio_at_k" /\ Done /\ allHit
  /\ Len(train_user_keys) = 2 /\ k = 2
  /\ result = Value(One)

\* C5: the value NDCG_at_k returns lies in [0,1], and it never returns NaN.
C5_NdcgInUnitInterval ==
  (fn = "NDCG_at_k" /\ Done) =>
    /\ result.kind \in {"value", "error"}
    /\ result.kind = "value" => InUnit(result.val)

C5_Witness ==
  /\ fn = "NDCG_at_k" /\ Done /\ result.kind = "value"
  /\ Len(train_user_keys) = 2
  /\ result.val # Zero /\ result.val # One

\* C6: rmse_knn and rmse_svd call model.predict once per sample of the split,
\* in the order of the split, and the j-th collected prediction is the one
\* returned for the j-th sample: n calls in all when the score is computed.
C6_OnePredictPerSampleInOrder ==
  fn \in RmseLoopFns =>
    /\ Len(calls) = pos /\ Len(pred) = pos
    /\ \A j \in 1 .. Len(calls) :
         /\ calls[j].u = user_indices[j]
         /\ calls[j].i = item_indices[j]
         /\ pred[j] = calls[j].p
    /\ (Done /\ result.kind \in {"value", "nan"}) =>
         /\ Len(calls) = Len(user_indices)
         /\ Len(pred) = Len(ratings)

C6_Witness ==
  /\ fn \in RmseLoopFns /\ Done /\ result.kind = "value"
  /\ Len(calls) = 2
  /\ calls[1].u # calls[2].u
  /\ calls[1].u # calls[1].i
  /\ pred[1] # pred[2]

\* C7: with a mode outside {"train", "test"} the split selection itself rejects
\* the value: control never passes it with user_indices, item_indices and
\* ratings unbound.
C7_SelectionRejectsMode ==
  (fn \in RmseFns /\ pc \in {"loop", "run"}) => split # "unbound"

\* C8: an aggregate metric invoked over zero samples or zero users ends by
\* raising; it returns neither a value nor NaN.
EmptyInput ==
  \/ fn \in RmseLoopFns /\ split # "unbound" /\ Len(user_indices) = 0
  \/ fn = "binary_cross_entropy" /\ Len(user_indices) = 0
  \/ fn \in RankLoopFns /\ Len(train_user_keys) = 0

C8_EmptyInputFails ==
  (Done /\ EmptyInput) => result.kind = "error"

\* C9: binary_cross_entropy rejects an input holding a label outside
\* {0.0, 1.0}, and a returned mean is over one term per input sample.
C9_InvalidLabelRejected ==
  (fn = "binary_cross_entropy" /\ Done) =>
    /\ (\E j \in 1 .. Len(ratings) : ratings[j] \notin {0, 1}) => result.kind = "error"
    /\ result.kind = "value" => Len(result.val.ce) = Len(ratings)

\* C10: in the rank walk of AP_at_k, at a rank i whose item is relevant the
\* recount precision_i equals the running count_relevant_k; and after every
\* iteration count_relevant_k <= i and precision_k <= count_relevant_k.
C10_RecountEqualsRunningCount ==
  /\ (i >= 1 /\ i <= Len(top_k) /\ top_k[i] \in rel) => precision_i = count_relevant_k
  /\ count_relevant_k <= i
  /\ RLe(precision_k, Frac(count_relevant_k, 1))

C10_Witness ==
  /\ pc = "ap_walk"
  /\ i = 3
  /\ top_k[3] \in rel
  /\ top_k[2] \notin rel
  /\ precision_i = 2

====
